---- MODULE Spec2Model ----
(***************************************************************************)
(* A model of the receipt pipeline of PJX-AI.                              *)
(*                                                                         *)
(*   receipt_ocr.py  the orchestrator: argument and configuration checks,  *)
(*                   image validation, the OCR fan-out on a thread pool,   *)
(*                   the fan-in into extracted_texts, the summarization    *)
(*                   request and the process's exit;                       *)
(*   app.py          process_request's use of the orchestrator's output;   *)
(*   analyze.py      analyze_expenses' retry loop.                         *)
(*                                                                         *)
(* Text is a sequence of characters, so that join, strip and the prompt    *)
(* template are computed as Python computes them.                          *)
(***************************************************************************)
EXTENDS Integers, Sequences, FiniteSets, Bags, TLC

\* ------------------------------------------------------------- bounds
\* The most command-line arguments a run is given (one more than main accepts).
MaxArgs == 4

\* ------------------------------------------------------------- text
SP == " "
NL == "\n"
\* The characters str.strip() removes.
Whitespace == {SP, NL}

RECURSIVE lstrip(_)
lstrip(s) ==
    IF s = <<>> THEN <<>>
    ELSE IF Head(s) \in Whitespace THEN lstrip(Tail(s))
    ELSE s

RECURSIVE rstrip(_)
rstrip(s) ==
    IF s = <<>> THEN <<>>
    ELSE IF s[Len(s)] \in Whitespace THEN rstrip(SubSeq(s, 1, Len(s) - 1))
    ELSE s

\* str.strip()
strip(s) == rstrip(lstrip(s))

\* sep.join(parts)
RECURSIVE join(_, _)
join(sep, parts) ==
    IF parts = <<>> THEN <<>>
    ELSE IF Len(parts) = 1 THEN parts[1]
    ELSE parts[1] \o sep \o join(sep, Tail(parts))

\* needle in haystack (a contiguous run of characters)
Contains(haystack, needle) ==
    \E k \in 0..(Len(haystack) - Len(needle)) :
        SubSeq(haystack, k + 1, k + Len(needle)) = needle

\* ------------------------------------------------------------- logging
\* logging.basicConfig(level=INFO) with a StreamHandler on sys.stdout: every
\* record of level INFO and above is a line of standard output; logger.debug
\* writes nothing.  The interpolated arguments of a message are left out.
\* Standard output is kept as the bag of its lines: which lines were written
\* and how often, not the order the threads wrote them in.
LevelNo(level) ==
    CASE level = "DEBUG" -> 10
      [] level = "INFO" -> 20
      [] level = "WARNING" -> 30
      [] level = "ERROR" -> 40

LogLevel == 20

LogLine(level, msg) == [kind |-> "log", level |-> level, msg |-> msg, text |-> <<>>]

PrintLine(text) == [kind |-> "print", level |-> "", msg |-> "", text |-> text]

\* The lines a sequence of logger calls <<level, msg>> adds to standard output.
RECURSIVE Emit(_)
Emit(calls) ==
    IF calls = <<>> THEN EmptyBag
    ELSE (IF LevelNo(calls[1][1]) >= LogLevel
          THEN SetToBag({LogLine(calls[1][1], calls[1][2])})
          ELSE EmptyBag) (+) Emit(Tail(calls))


\* ------------------------------------------------------------- images
\* What mimetypes.guess_type can answer for a path ("None": no guess).
MimeTypes == {"image/jpeg", "image/png", "image/jpg", "image/gif", "None"}

\* The guesses of the paths a run is given: image/png goes the way of
\* image/jpeg at every step of the run and is left to the validator's own check.
ArgMimeTypes == MimeTypes \ {"image/png"}

\* The list validate_image_path tests the guess against.
AcceptedMimeTypes == {"image/jpeg", "image/png", "image/jpg"}

\* A validator that tests only that the path is a file.
validate_image_path_any_type(isfile, mime) ==
    isfile

\* A validator that tests only the guessed type.
validate_image_path_type_only(isfile, mime) ==
    mime \in AcceptedMimeTypes

\* validate_image_path(image_path): isfile is what os.path.isfile answers for
\* the path at the time of the call, mime what guess_type answers.
validate_image_path(isfile, mime) ==
    isfile /\ mime \in AcceptedMimeTypes

\* The logger calls of validate_image_path.
validate_log(isfile, mime) ==
    IF ~isfile THEN << <<"ERROR", "File does not exist">> >>
    ELSE IF mime \notin AcceptedMimeTypes
         THEN << <<"ERROR", "Unsupported image format">> >>
         ELSE <<>>

\* image_type = f'Receipt{i+1}'; slots are numbered from 1 here.
image_type(slot) == <<"Receipt", slot>>

\* ------------------------------------------------------------- exceptions
\* The classes an exception is an instance of.
Bases(exc) ==
    CASE exc = "Timeout" -> {"Timeout", "RequestException", "Exception"}
      [] exc = "ConnectionError" -> {"ConnectionError", "RequestException", "Exception"}
      [] exc = "ValueError" -> {"ValueError", "Exception"}
      [] exc = "KeyError" -> {"KeyError", "Exception"}
      [] exc = "cv2.error" -> {"cv2.error", "Exception"}

\* The log message of the first except clause that catches exc, "" when none does.
RECURSIVE handler(_, _)
handler(clauses, exc) ==
    IF clauses = <<>> THEN ""
    ELSE IF clauses[1][1] \in Bases(exc) THEN clauses[1][2]
    ELSE handler(Tail(clauses), exc)

\* ------------------------------------------------------------- perform_ocr
\* What a function body comes to: a returned text, or an exception.
Returns(text, logs) == [exc |-> "", text |-> text, logs |-> logs]

Raises(exc, logs) == [exc |-> exc, text |-> <<>>, logs |-> logs]

\* preprocess_receipt_image and cv2.imencode, as perform_ocr sees them.
PreOutcomes == {"ok", "imread_none", "cv2_error", "imencode_fail"}

\* perform_ocr up to and including session.post: "post" when the request is sent.
ocr_prepare(pre) ==
    CASE pre = "imread_none" ->
            Returns(<<>>, << <<"ERROR", "Failed to load image from">>,
                             <<"ERROR", "Preprocessing failed for">> >>)
      [] pre = "cv2_error" -> Raises("cv2.error", <<>>)
      [] pre = "imencode_fail" ->
            Returns(<<>>, << <<"ERROR", "Image encoding failed for">> >>)
      [] pre = "ok" -> [exc |-> "", text |-> <<>>, logs |-> <<>>]

\* A field of the OCR answer: it has an inferText or has none.
Field(t) == [hasInferText |-> TRUE, inferText |-> t]

FieldWithoutText == [hasInferText |-> FALSE, inferText |-> <<>>]

\* The bodies of the OCR answers: unparsable, or JSON with its images, each
\* a sequence of fields.
OcrBody(images) == [parsable |-> TRUE, images |-> images]

OcrBodies ==
    { [parsable |-> FALSE, images |-> <<>>],
      OcrBody(<<>>),
      OcrBody(<< <<Field(<<"A">>)>> >>),
      OcrBody(<< <<Field(<<"A">>)>>, <<Field(<<"B">>)>> >>),
      OcrBody(<< <<Field(<<SP>>)>> >>),
      OcrBody(<< <<Field(<<"A">>), FieldWithoutText>> >>) }

\* What session.post comes to: an exception, or a response.
OcrResponses ==
    { [exc |-> "Timeout", status_code |-> 0, body |-> OcrBody(<<>>)],
      [exc |-> "ConnectionError", status_code |-> 0, body |-> OcrBody(<<>>)],
      [exc |-> "", status_code |-> 500, body |-> OcrBody(<<>>)] }
    \cup { [exc |-> "", status_code |-> 200, body |-> b] : b \in OcrBodies }

\* for image in images for field in image['fields']: the fields in order.
RECURSIVE all_fields(_)
all_fields(images) ==
    IF images = <<>> THEN <<>> ELSE images[1] \o all_fields(Tail(images))

\* " ".join([field['inferText'] ...]): KeyError on a field without inferText.
text_results(body) ==
    LET fields == all_fields(body.images) IN
    IF \E k \in 1..Len(fields) : ~fields[k].hasInferText
    THEN Raises("KeyError", <<>>)
    ELSE Returns(join(<<SP>>, [k \in 1..Len(fields) |-> fields[k].inferText]),
                 << <<"INFO", "OCR succeeded for">> >>)

\* perform_ocr from the answer of session.post on.
ocr_response(resp) ==
    IF resp.exc # "" THEN Raises(resp.exc, <<>>)
    ELSE IF resp.status_code = 200
         THEN (IF ~resp.body.parsable THEN Raises("ValueError", <<>>)
               ELSE text_results(resp.body))
         ELSE Returns(<<>>, << <<"ERROR", "OCR request failed for">> >>)

\* perform_ocr without its last except clause.
ocr_except_clauses_requests_only ==
    << <<"Timeout", "OCR request timeout for">>,
       <<"RequestException", "OCR request exception for">> >>

\* The except clauses of perform_ocr's try block.
ocr_except_clauses ==
    << <<"Timeout", "OCR request timeout for">>,
       <<"RequestException", "OCR request exception for">>,
       <<"Exception", "Unexpected exception during OCR processing for">> >>

\* perform_ocr's try/except around a body's outcome: the call's result.
\* raised is "" when the call returns <<image_type, text>>.
perform_ocr_try(slot, outcome) ==
    IF outcome.exc = ""
    THEN [image_type |-> image_type(slot), text |-> outcome.text, raised |-> "",
          logs |-> outcome.logs]
    ELSE IF handler(ocr_except_clauses, outcome.exc) # ""
         THEN [image_type |-> image_type(slot), text |-> <<>>, raised |-> "",
               logs |-> outcome.logs
                        \o << <<"ERROR", handler(ocr_except_clauses, outcome.exc)>> >>]
         ELSE [image_type |-> image_type(slot), text |-> <<>>, raised |-> outcome.exc,
               logs |-> outcome.logs]

\* The result of a call that has not returned.
NoResult == [image_type |-> <<"Receipt", 0>>, text |-> <<>>, raised |-> "", logs |-> <<>>]

\* ------------------------------------------------------------- dict
\* A dict keeps its keys in insertion order: a sequence of <<key, value>>.
DictValues(d) == [k \in 1..Len(d) |-> d[k][2]]

\* d[key] = value
DictSet(d, key, value) ==
    IF \E k \in 1..Len(d) : d[k][1] = key
    THEN [k \in 1..Len(d) |-> IF d[k][1] = key THEN <<key, value>> ELSE d[k]]
    ELSE Append(d, <<key, value>>)


\* ------------------------------------------------------------- perform_summarization
\* The value None.
None == [isNone |-> TRUE, text |-> <<>>]

Str(text) == [isNone |-> FALSE, text |-> text]

\* A test of the value for None only.
IsNotNone(v) == ~v.isNone

\* Python's truth of a value that is None or a string.
Truthy(v) == ~v.isNone /\ v.text # <<>>

\* The bodies of the LLM answers: unparsable, JSON without
\* choices[0].message.content, or JSON with that content.
LlmContents == {<<>>, <<SP>>, <<"S">>, <<SP, "S", NL>>}

LlmBodies ==
    { [parsable |-> FALSE, hasContent |-> FALSE, content |-> <<>>],
      [parsable |-> TRUE, hasContent |-> FALSE, content |-> <<>>] }
    \cup { [parsable |-> TRUE, hasContent |-> TRUE, content |-> c] : c \in LlmContents }

LlmResponses ==
    { [exc |-> "Timeout", status_code |-> 0, body |-> [parsable |-> FALSE, hasContent |-> FALSE, content |-> <<>>]],
      [exc |-> "ConnectionError", status_code |-> 0, body |-> [parsable |-> FALSE, hasContent |-> FALSE, content |-> <<>>]],
      [exc |-> "", status_code |-> 500, body |-> [parsable |-> FALSE, hasContent |-> FALSE, content |-> <<>>]] }
    \cup { [exc |-> "", status_code |-> 200, body |-> b] : b \in LlmBodies }

\* The try block of perform_summarization from the answer of session.post
\* on: the value it returns, or the exception it raises.
summarization_response(resp) ==
    IF resp.exc # "" THEN [exc |-> resp.exc, value |-> None, logs |-> <<>>]
    ELSE IF resp.status_code = 200
         THEN (IF ~resp.body.parsable
               THEN [exc |-> "ValueError", value |-> None, logs |-> <<>>]
               ELSE IF ~resp.body.hasContent
               THEN [exc |-> "KeyError", value |-> None, logs |-> <<>>]
               ELSE [exc |-> "", value |-> Str(strip(resp.body.content)),
                     logs |-> << <<"INFO", "Summarization succeeded.">> >>])
         ELSE [exc |-> "", value |-> None,
               logs |-> << <<"ERROR", "Summarization request failed.">> >>]

\* A try block of perform_summarization that handles the requests
\* library's exceptions only.
summarization_except_clauses_requests_only ==
    << <<"Timeout", "Summarization request timeout.">>,
       <<"RequestException", "Summarization request exception">> >>

\* The except clauses of perform_summarization's try block.
summarization_except_clauses ==
    << <<"Timeout", "Summarization request timeout.">>,
       <<"RequestException", "Summarization request exception">>,
       <<"Exception", "Unexpected exception during summarization">> >>

\* perform_summarization's result for an answer: value is what it returns,
\* raised the exception that leaves it ("" when it returns).
perform_summarization(resp) ==
    LET outcome == summarization_response(resp) IN
    IF outcome.exc = ""
    THEN [value |-> outcome.value, raised |-> "", logs |-> outcome.logs]
    ELSE IF handler(summarization_except_clauses, outcome.exc) # ""
         THEN [value |-> None, raised |-> "",
               logs |-> outcome.logs
                   \o << <<"ERROR", handler(summarization_except_clauses, outcome.exc)>> >>]
         ELSE [value |-> None, raised |-> outcome.exc, logs |-> outcome.logs]

\* The LLM endpoint has not answered.
NoAnswer == [kind |-> "", content |-> <<>>]

\* ------------------------------------------------------------- main
\* The settings main reads, in the order it reads them.
RequiredEnv == <<"OCR_API_URL", "SECRET_KEY", "OPENAI_API_URL", "OPENAI_API_KEY">>

RequiredEnvSet == {RequiredEnv[k] : k \in 1..Len(RequiredEnv)}

\* A main that tests the first setting it reads and no other.
first_missing_first_only(names, set) ==
    IF names # <<>> /\ names[1] \notin set THEN names[1] ELSE ""

\* The first setting of RequiredEnv that getenv finds unset or empty, "" when none.
RECURSIVE first_missing(_, _)
first_missing(names, set) ==
    IF names = <<>> THEN ""
    ELSE IF names[1] \notin set THEN names[1]
    ELSE first_missing(Tail(names), set)

\* The error main logs for a setting that is not set.
env_message(name) ==
    CASE name = "OCR_API_URL" -> "Environment variable OCR_API_URL is not set."
      [] name = "SECRET_KEY" -> "Environment variable SECRET_KEY is not set."
      [] name = "OPENAI_API_URL" -> "Environment variable OPENAI_API_URL is not set."
      [] name = "OPENAI_API_KEY" -> "Environment variable OPENAI_API_KEY is not set."

\* main without the test of valid_image_paths.
no_valid_images_unchecked(valid) == FALSE

\* if not valid_image_paths
no_valid_images(valid) == valid = <<>>

\* The argument count test without its upper limit.
arg_count_ok_no_upper_limit(num_images) == 1 <= num_images

\* if not (1 <= num_images <= 3)
arg_count_ok(num_images) == 1 <= num_images /\ num_images <= 3

\* The f-string of the prompt: the instructions, the combined text, the
\* closing line break and indentation.
PromptHead == <<NL, "instructions", NL>>

PromptTail == <<NL, SP>>

build_prompt(combined) == PromptHead \o combined \o PromptTail

\* A test of the combined text that looks at its first character only.
ocr_result_empty_first_char(combined) ==
    combined = <<>> \/ Head(combined) \in Whitespace

\* if not combined_text.strip()
ocr_result_empty(combined) == strip(combined) = <<>>

\* ThreadPoolExecutor(max_workers=5)
max_workers == 5


\* ------------------------------------------------------------- state
VARIABLES
    image_file_paths,   \* sys.argv[1:]: each path stands as its guessed MIME type
    env,                \* the required settings that are set and not empty
    pc,                 \* where the orchestrator process is
    exit_status,        \* the process's exit status once pc = "exited"
    stdout,             \* the bag of the lines written to standard output
    isfile,             \* per slot, the last answer of os.path.isfile for its path
    valid_image_paths,  \* main's list, as the slots of its (image_type, path) pairs
    taskpc,             \* per slot, where its perform_ocr task is
    taskRet,            \* per slot, the result of its future
    taskOutcome,        \* per slot, what its perform_ocr call met
    ocrRequests,        \* per slot, the requests posted to the OCR endpoint
    extracted_texts,    \* main's dict, in insertion order
    combined_text,      \* main's combined_text
    prompt,             \* the prompt handed to perform_summarization
    llmRequests,        \* the requests posted to the LLM endpoint
    summary_result,     \* main's summary_result
    llmOutcome,         \* the kind and the content of the LLM endpoint's answer
    an_pc,              \* analyze.py: where the call of analyze_expenses is
    total_spending,     \* analyze_expenses' argument total_spending
    attempt,            \* the loop variable of analyze_expenses
    backoff,            \* its backoff
    api_calls,          \* the answers ChatCompletion.create gave, in order
    sleeps,             \* the arguments of time.sleep, in order
    analysis,           \* what analyze_expenses returned; main's analysis
    monthly_goal,       \* analyze.py main's monthly_goal
    report_stdout,      \* the JSON documents analyze.py has printed, in order
    report_exit,        \* analyze.py's exit status, -1 while it runs
    uploads,            \* app.py: per request, the filenames of its 'files' parts
    app_pc,             \* per request, where process_request is
    saved,              \* per request, the files its loop has saved
    tmp,                \* the files of /tmp: path and content
    sub_read,           \* per request, the contents its subprocess read
    http_status         \* per request, the status answered (0: none yet)

receiptVars == <<image_file_paths, env, pc, exit_status, stdout, isfile, valid_image_paths,
          taskpc, taskRet, taskOutcome, ocrRequests, extracted_texts, combined_text,
          prompt, llmRequests, summary_result, llmOutcome>>

analyzeVars == <<an_pc, total_spending, attempt, backoff, api_calls, sleeps, analysis,
                 monthly_goal, report_stdout, report_exit>>

appVars == <<uploads, app_pc, saved, tmp, sub_read, http_status>>

vars == <<receiptVars, analyzeVars, appVars>>

Slots == 1..MaxArgs

\* The argument lists: up to MaxArgs paths.
ArgLists == UNION { [1..n -> ArgMimeTypes] : n \in 0..MaxArgs }

\* receipt_ocr.py is not running.
ReceiptOff ==
    /\ image_file_paths = <<>>
    /\ env = {}
    /\ pc = "off"
    /\ exit_status = -1
    /\ stdout = EmptyBag
    /\ isfile = [i \in 1..MaxArgs |-> "unknown"]
    /\ valid_image_paths = <<>>
    /\ taskpc = [i \in 1..MaxArgs |-> "none"]
    /\ taskRet = [i \in 1..MaxArgs |-> NoResult]
    /\ taskOutcome = [i \in 1..MaxArgs |-> ""]
    /\ ocrRequests = [i \in 1..MaxArgs |-> 0]
    /\ extracted_texts = <<>>
    /\ combined_text = <<>>
    /\ prompt = <<>>
    /\ llmRequests = 0
    /\ summary_result = None
    /\ llmOutcome = NoAnswer

\* app.py serves no request.
AppOff ==
    /\ uploads = <<>>
    /\ app_pc = <<>>
    /\ saved = <<>>
    /\ tmp = {}
    /\ sub_read = <<>>
    /\ http_status = <<>>

\* analyze.py is not running.
AnalyzeOff ==
    /\ an_pc = "off"
    /\ total_spending = 0
    /\ attempt = 0
    /\ backoff = 0
    /\ api_calls = <<>>
    /\ sleeps = <<>>
    /\ analysis = <<>>
    /\ monthly_goal = 0
    /\ report_stdout = <<>>
    /\ report_exit = -1

Init ==
    /\ AnalyzeOff
    /\ AppOff
    /\ image_file_paths \in ArgLists
    /\ env \in SUBSET RequiredEnvSet
    /\ pc = "entry"
    /\ exit_status = -1
    /\ stdout = EmptyBag
    /\ isfile = [i \in Slots |-> "unknown"]
    /\ valid_image_paths = <<>>
    /\ taskpc = [i \in Slots |-> "none"]
    /\ taskRet = [i \in Slots |-> NoResult]
    /\ taskOutcome = [i \in Slots |-> ""]
    /\ ocrRequests = [i \in Slots |-> 0]
    /\ extracted_texts = <<>>
    /\ combined_text = <<>>
    /\ prompt = <<>>
    /\ llmRequests = 0
    /\ summary_result = None
    /\ llmOutcome = NoAnswer

\* sys.exit(status) after the logger calls given.
Exit(status, calls) ==
    /\ pc' = "exited"
    /\ exit_status' = status
    /\ stdout' = stdout (+) Emit(calls)

\* if __name__ == '__main__': the argument count check, then main.
EntryPoint ==
    /\ UNCHANGED <<analyzeVars, appVars>>
    /\ pc = "entry"
    /\ IF arg_count_ok(Len(image_file_paths))
       THEN /\ pc' = "main"
            /\ stdout' = stdout (+) Emit(<< <<"DEBUG", "Received image(s)">> >>)
            /\ UNCHANGED exit_status
       ELSE Exit(1, << <<"DEBUG", "Received image(s)">>,
                       <<"ERROR", "You must provide at least 1 and at most 3 image files.">> >>)
    /\ UNCHANGED <<image_file_paths, env, isfile, valid_image_paths, taskpc, taskRet,
                   taskOutcome, ocrRequests, extracted_texts, combined_text, prompt,
                   llmRequests, summary_result, llmOutcome>>

\* main: the four settings, read and tested in order.
MainConfig ==
    /\ UNCHANGED <<analyzeVars, appVars>>
    /\ pc = "main"
    /\ IF first_missing(RequiredEnv, env) = ""
       THEN /\ pc' = "validate"
            /\ UNCHANGED <<exit_status, stdout>>
       ELSE Exit(1, << <<"ERROR", env_message(first_missing(RequiredEnv, env))>> >>)
    /\ UNCHANGED <<image_file_paths, env, isfile, valid_image_paths, taskpc, taskRet,
                   taskOutcome, ocrRequests, extracted_texts, combined_text, prompt,
                   llmRequests, summary_result, llmOutcome>>

\* The slots of paths whose validation succeeds, in argument order.
RECURSIVE valid_slots(_, _, _)
valid_slots(paths, files, i) ==
    IF i > Len(paths) THEN <<>>
    ELSE (IF validate_image_path(files[i], paths[i]) THEN <<i>> ELSE <<>>)
         \o valid_slots(paths, files, i + 1)

\* The logger calls of main's validation loop.
RECURSIVE validation_log(_, _, _)
validation_log(paths, files, i) ==
    IF i > Len(paths) THEN <<>>
    ELSE (IF validate_image_path(files[i], paths[i]) THEN <<>>
          ELSE validate_log(files[i], paths[i])
               \o << <<"WARNING", "Invalid image path. Skipping this file.">> >>)
         \o validation_log(paths, files, i + 1)

\* main: the validation loop and the test of valid_image_paths.
MainValidate ==
    /\ UNCHANGED <<analyzeVars, appVars>>
    /\ pc = "validate"
    /\ \E files \in [1..Len(image_file_paths) -> BOOLEAN] :
        LET valid == valid_slots(image_file_paths, files, 1)
            calls == validation_log(image_file_paths, files, 1)
        IN  /\ isfile' = [i \in Slots |->
                            IF i > Len(image_file_paths) THEN isfile[i]
                            ELSE IF files[i] THEN "file" ELSE "missing"]
            /\ valid_image_paths' = valid
            /\ IF no_valid_images(valid)
               THEN Exit(1, calls \o << <<"ERROR", "No valid image files provided.">> >>)
               ELSE /\ pc' = "submit"
                    /\ stdout' = stdout (+) Emit(calls)
                    /\ UNCHANGED exit_status
    /\ UNCHANGED <<image_file_paths, env, taskpc, taskRet, taskOutcome, ocrRequests,
                   extracted_texts, combined_text, prompt, llmRequests, summary_result, llmOutcome>>


\* The tasks main has submitted to the executor.
Submitted == {i \in Slots : taskpc[i] # "none"}

\* main: executor.submit for the next pair of valid_image_paths; once every
\* pair is submitted, the as_completed loop.
MainSubmit ==
    /\ UNCHANGED <<analyzeVars, appVars>>
    /\ pc = "submit"
    /\ IF Cardinality(Submitted) < Len(valid_image_paths)
       THEN /\ taskpc' = [taskpc EXCEPT
                            ![valid_image_paths[Cardinality(Submitted) + 1]] = "queued"]
            /\ pc' = pc
       ELSE /\ pc' = "collect"
            /\ UNCHANGED taskpc
    /\ UNCHANGED <<image_file_paths, env, exit_status, stdout, isfile, valid_image_paths,
                   taskRet, taskOutcome, ocrRequests, extracted_texts, combined_text,
                   prompt, llmRequests, summary_result, llmOutcome>>

\* A task's call of perform_ocr ends with result r, having met `met`.
Finish(i, r, met) ==
    /\ taskpc' = [taskpc EXCEPT ![i] = "finished"]
    /\ taskRet' = [taskRet EXCEPT ![i] =
                      [image_type |-> r.image_type, text |-> r.text,
                       raised |-> r.raised, logs |-> <<>>]]
    /\ taskOutcome' = [taskOutcome EXCEPT ![i] = met]
    /\ stdout' = stdout (+) Emit(r.logs)

\* A worker thread runs perform_ocr for slot i up to session.post: the
\* validation, the preprocessing, the encoding, the request.
OcrStart(i) ==
    /\ UNCHANGED <<analyzeVars, appVars>>
    /\ taskpc[i] = "queued"
    /\ Cardinality({j \in Slots : taskpc[j] = "posted"}) < max_workers
    /\ \E f \in BOOLEAN, pre \in PreOutcomes :
        /\ isfile' = [isfile EXCEPT ![i] = IF f THEN "file" ELSE "missing"]
        /\ IF ~validate_image_path(f, image_file_paths[i])
           THEN /\ Finish(i, [image_type |-> image_type(i), text |-> <<>>, raised |-> "",
                              logs |-> validate_log(f, image_file_paths[i])], "invalid")
                /\ UNCHANGED ocrRequests
           ELSE IF pre = "ok"
           THEN /\ taskpc' = [taskpc EXCEPT ![i] = "posted"]
                /\ ocrRequests' = [ocrRequests EXCEPT ![i] = @ + 1]
                /\ UNCHANGED <<taskRet, taskOutcome, stdout>>
           ELSE /\ Finish(i, perform_ocr_try(i, ocr_prepare(pre)), pre)
                /\ UNCHANGED ocrRequests
    /\ UNCHANGED <<image_file_paths, env, pc, exit_status, valid_image_paths,
                   extracted_texts, combined_text, prompt, llmRequests, summary_result, llmOutcome>>

\* What an answer of the OCR endpoint is, for the record.
response_kind(resp) ==
    IF resp.exc # "" THEN resp.exc
    ELSE IF resp.status_code # 200 THEN "status"
    ELSE IF ~resp.body.parsable THEN "unparsable"
    ELSE IF text_results(resp.body).exc # "" THEN "malformed"
    ELSE "ok"

\* The worker thread of slot i gets the answer of session.post and finishes
\* perform_ocr.
OcrResponse(i) ==
    /\ UNCHANGED <<analyzeVars, appVars>>
    /\ taskpc[i] = "posted"
    /\ \E resp \in OcrResponses :
        Finish(i, perform_ocr_try(i, ocr_response(resp)), response_kind(resp))
    /\ UNCHANGED <<image_file_paths, env, pc, exit_status, isfile, valid_image_paths,
                   ocrRequests, extracted_texts, combined_text, prompt, llmRequests,
                   summary_result, llmOutcome>>

\* A round of the loop that stores only a text that is not empty.
store_result_unless_empty(texts, ret) ==
    IF ret.text = <<>> THEN texts ELSE DictSet(texts, ret.image_type, ret.text)

\* image_type, text = future.result(); extracted_texts[image_type] = text
store_result(texts, ret) ==
    DictSet(texts, ret.image_type, ret.text)

\* main: one round of the as_completed loop, for a future that is done:
\* future.result() returns the pair or raises what the call raised.
MainCollect(i) ==
    /\ UNCHANGED <<analyzeVars, appVars>>
    /\ pc = "collect"
    /\ taskpc[i] = "finished"
    /\ taskpc' = [taskpc EXCEPT ![i] = "collected"]
    /\ IF taskRet[i].raised # ""
       THEN /\ pc' = "exited"
            /\ exit_status' = 1
            /\ UNCHANGED extracted_texts
       ELSE /\ extracted_texts' = store_result(extracted_texts, taskRet[i])
            /\ UNCHANGED <<pc, exit_status>>
    /\ UNCHANGED <<image_file_paths, env, stdout, isfile, valid_image_paths, taskRet,
                   taskOutcome, ocrRequests, combined_text, prompt, llmRequests,
                   summary_result, llmOutcome>>

\* A loop that ends with the first future it has seen.
all_collected_first_only ==
    \E k \in 1..Len(valid_image_paths) : taskpc[valid_image_paths[k]] = "collected"

\* The as_completed loop has seen every future, and the with block ends.
all_collected ==
    \A k \in 1..Len(valid_image_paths) : taskpc[valid_image_paths[k]] = "collected"

\* main: combined_text, its test, the prompt.
MainCombine ==
    /\ UNCHANGED <<analyzeVars, appVars>>
    /\ pc = "collect"
    /\ all_collected
    /\ LET combined == join(<<NL>>, DictValues(extracted_texts)) IN
        /\ combined_text' = combined
        /\ IF ocr_result_empty(combined)
           THEN /\ Exit(1, << <<"ERROR", "OCR result is empty.">> >>)
                /\ UNCHANGED prompt
           ELSE /\ prompt' = build_prompt(combined)
                /\ pc' = "summarize"
                /\ UNCHANGED <<exit_status, stdout>>
    /\ UNCHANGED <<image_file_paths, env, isfile, valid_image_paths, taskpc, taskRet,
                   taskOutcome, ocrRequests, extracted_texts, llmRequests, summary_result, llmOutcome>>

\* main calls perform_summarization, which posts the request.
MainSummarize ==
    /\ UNCHANGED <<analyzeVars, appVars>>
    /\ pc = "summarize"
    /\ llmRequests' = llmRequests + 1
    /\ pc' = "llm_wait"
    /\ UNCHANGED <<image_file_paths, env, exit_status, stdout, isfile, valid_image_paths,
                   taskpc, taskRet, taskOutcome, ocrRequests, extracted_texts,
                   combined_text, prompt, summary_result, llmOutcome>>

\* What an answer of the LLM endpoint is, for the record.
llm_response_kind(resp) ==
    IF resp.exc # "" THEN resp.exc
    ELSE IF resp.status_code # 200 THEN "status"
    ELSE IF ~resp.body.parsable THEN "unparsable"
    ELSE IF ~resp.body.hasContent THEN "malformed"
    ELSE "ok"

\* perform_summarization gets the answer and returns; main prints the
\* summary or exits with status 1.  A run that reaches the end of main exits 0.
MainOutput ==
    /\ UNCHANGED <<analyzeVars, appVars>>
    /\ pc = "llm_wait"
    /\ \E resp \in LlmResponses :
        LET r == perform_summarization(resp) IN
        /\ summary_result' = r.value
        /\ llmOutcome' = [kind |-> llm_response_kind(resp), content |-> resp.body.content]
        /\ pc' = "exited"
        /\ IF r.raised # ""
           THEN /\ exit_status' = 1
                /\ stdout' = stdout (+) Emit(r.logs)
           ELSE IF Truthy(r.value)
           THEN /\ exit_status' = 0
                /\ stdout' = stdout (+) Emit(r.logs) (+) SetToBag({PrintLine(r.value.text)})
           ELSE /\ exit_status' = 1
                /\ stdout' = stdout (+) Emit(r.logs
                                \o << <<"ERROR", "Failed to retrieve summary result.">> >>)
    /\ UNCHANGED <<image_file_paths, env, isfile, valid_image_paths, taskpc, taskRet,
                   taskOutcome, ocrRequests, extracted_texts, combined_text, prompt,
                   llmRequests>>

\* process_request, for the run of the orchestrator it started: check_output
\* returns the process's output on exit status 0 and raises
\* CalledProcessError otherwise; the answer carries that output as it is.
process_request(status, output) ==
    IF status = 0 THEN [status |-> 200, key |-> "result", body |-> output]
    ELSE [status |-> 500, key |-> "details", body |-> output]

Next ==
    \/ EntryPoint
    \/ MainConfig
    \/ MainValidate
    \/ MainSubmit
    \/ \E i \in Slots : OcrStart(i)
    \/ \E i \in Slots : OcrResponse(i)
    \/ \E i \in Slots : MainCollect(i)
    \/ MainCombine
    \/ MainSummarize
    \/ MainOutput

Spec == Init /\ [][Next]_vars


\* ------------------------------------------------------------- analyze.py
\* The dict {}.
EmptyDict == <<>>

\* d[key] = value, for a dict kept as a function of its keys.
DictPut(d, key, value) == (key :> value) @@ d

\* The key '총 지출 금액' of the analysis.
TotalKey == "total spending"

\* The key '지출 패턴' of the analysis.
PatternKey == "spending pattern"

\* The JSON objects an answer can hold.
Docs ==
    { EmptyDict,
      (PatternKey :> "groceries"),
      (PatternKey :> "dining") @@ (TotalKey :> "100,000") }

\* What openai.ChatCompletion.create comes to: an exception, or a content in
\* which the regular expressions find a JSON object or none, which json.loads
\* parses to doc or does not parse.
ApiAnswers ==
    { [raises |-> TRUE, hasObject |-> FALSE, parses |-> FALSE, doc |-> EmptyDict],
      [raises |-> FALSE, hasObject |-> FALSE, parses |-> FALSE, doc |-> EmptyDict],
      [raises |-> FALSE, hasObject |-> TRUE, parses |-> FALSE, doc |-> EmptyDict] }
    \cup { [raises |-> FALSE, hasObject |-> TRUE, parses |-> TRUE, doc |-> d] : d \in Docs }

\* The body of the try block yields an analysis for this answer.
yields_analysis(answer) ==
    ~answer.raises /\ answer.hasObject /\ answer.parses

\* analysis = json.loads(...); analysis['총 지출 금액'] = float(total_spending)
build_analysis(answer, total) == DictPut(answer.doc, TotalKey, total)

\* analyze_expenses(prompt, total_spending, retries=3)
retries == 3

\* A backoff that stays what it is.
next_backoff_constant(b) == b

\* backoff *= 2
next_backoff(b) == b * 2

\* The totals analyze_expenses is called with.
Totals == {0, 1500}

\* The key '월간 예산 대비 초과 또는 절약 금액' of the analysis.
BudgetKey == "budget difference"

\* json.dumps({'error': msg})
ErrorDoc(msg) == ("error" :> msg)

\* The monthly goals fetch_monthly_goal can return.
Goals == {0, 1000, 2000}

\* calculate_budget_difference(monthly_goal, total_spending)
calculate_budget_difference(goal, total) ==
    IF goal - total > 0 THEN [amount |-> goal - total, kind |-> "saved"]
    ELSE IF goal - total < 0 THEN [amount |-> total - goal, kind |-> "over"]
    ELSE [amount |-> 0, kind |-> "equal"]

\* A test of the loop variable that lets every round sleep.
sleeps_after_every_attempt(n) == TRUE

\* if attempt < retries - 1
sleeps_before_retry(n) == n < retries - 1

\* print(json.dumps(doc)); the end of main.
ReportPrintAndReturn(doc) ==
    /\ report_stdout' = Append(report_stdout, doc)
    /\ report_exit' = 0
    /\ an_pc' = "done"

\* analyze.py main is called, its arguments parsed.
InitAnalyze ==
    /\ ReceiptOff
    /\ AppOff
    /\ an_pc = "main"
    /\ total_spending = 0
    /\ attempt = 0
    /\ backoff = 0
    /\ api_calls = <<>>
    /\ sleeps = <<>>
    /\ analysis = EmptyDict
    /\ monthly_goal = 0
    /\ report_stdout = <<>>
    /\ report_exit = -1

\* main: fetch_spending_data raises, returns no row, or returns rows
\* whose amounts sum to total_spending.
ReportFetchSpending ==
    /\ an_pc = "main"
    /\ \E outcome \in {"raises", "empty", "rows"} :
        IF outcome = "raises"
        THEN /\ ReportPrintAndReturn(ErrorDoc("Failed to fetch spending data"))
             /\ UNCHANGED total_spending
        ELSE IF outcome = "empty"
        THEN /\ ReportPrintAndReturn(ErrorDoc("No spending data found"))
             /\ UNCHANGED total_spending
        ELSE /\ \E total \in Totals : total_spending' = total
             /\ an_pc' = "goal"
             /\ UNCHANGED <<report_stdout, report_exit>>
    /\ UNCHANGED <<attempt, backoff, api_calls, sleeps, analysis, monthly_goal>>
    /\ UNCHANGED <<receiptVars, appVars>>

\* main: fetch_monthly_goal raises or returns the goal; then the prompt is
\* built (categorize_products handles its own exceptions and its result
\* goes into the prompt only) and analyze_expenses is called: backoff = 1,
\* the first round of the loop.
ReportFetchGoal ==
    /\ an_pc = "goal"
    /\ \E raises \in BOOLEAN, goal \in Goals :
        IF raises
        THEN /\ ReportPrintAndReturn(ErrorDoc("Failed to fetch monthly goal"))
             /\ UNCHANGED <<monthly_goal, attempt, backoff>>
        ELSE /\ monthly_goal' = goal
             /\ attempt' = 0
             /\ backoff' = 1
             /\ an_pc' = "call"
             /\ UNCHANGED <<report_stdout, report_exit>>
    /\ UNCHANGED <<total_spending, api_calls, sleeps, analysis>>
    /\ UNCHANGED <<receiptVars, appVars>>

\* One round of the loop up to its sleep: the API call, the extraction of
\* the JSON object; the return of the analysis, or after the last round of {}.
AnalyzeAttempt ==
    /\ an_pc = "call"
    /\ attempt < retries
    /\ \E answer \in ApiAnswers :
        /\ api_calls' = Append(api_calls, answer)
        /\ IF yields_analysis(answer)
           THEN /\ analysis' = build_analysis(answer, total_spending)
                /\ an_pc' = "returned"
           ELSE IF sleeps_before_retry(attempt)
           THEN /\ an_pc' = "sleep"
                /\ UNCHANGED analysis
           ELSE /\ analysis' = EmptyDict
                /\ an_pc' = "returned"
    /\ UNCHANGED <<total_spending, attempt, backoff, sleeps, monthly_goal,
                   report_stdout, report_exit>>
    /\ UNCHANGED <<receiptVars, appVars>>

\* time.sleep(backoff); backoff *= 2; the next round, or the end of the
\* loop and the return of {}.
AnalyzeSleep ==
    /\ an_pc = "sleep"
    /\ sleeps' = Append(sleeps, backoff)
    /\ backoff' = next_backoff(backoff)
    /\ attempt' = attempt + 1
    /\ IF attempt + 1 < retries
       THEN /\ an_pc' = "call"
            /\ UNCHANGED analysis
       ELSE /\ analysis' = EmptyDict
            /\ an_pc' = "returned"
    /\ UNCHANGED <<total_spending, api_calls, monthly_goal, report_stdout, report_exit>>
    /\ UNCHANGED <<receiptVars, appVars>>

\* main after analyze_expenses: the budget difference is stored in the
\* analysis, then `if analysis:` chooses what is printed.  json.dumps takes
\* every value the analysis can hold (what json.loads gave, a float, a str),
\* so its TypeError clause is not entered.
ReportOutput ==
    /\ an_pc = "returned"
    /\ analysis' = DictPut(analysis, BudgetKey,
                           calculate_budget_difference(monthly_goal, total_spending))
    /\ IF DOMAIN analysis' # {}
       THEN ReportPrintAndReturn(analysis')
       ELSE ReportPrintAndReturn(ErrorDoc("Spending analysis failed"))
    /\ UNCHANGED <<total_spending, attempt, backoff, api_calls, sleeps, monthly_goal>>
    /\ UNCHANGED <<receiptVars, appVars>>

\* An endpoint that answers 500 for a document with an error key.
analyze_spending_error_as_500(status, output) ==
    IF status = 0 /\ Len(output) = 1 /\ "error" \notin DOMAIN output[1]
    THEN [status |-> 200, body |-> output[1]]
    ELSE [status |-> 500, body |-> ErrorDoc("Error processing analysis")]

\* analyze_spending, for the run of analyze.py it started: check_output
\* raises CalledProcessError on an exit status other than 0, json.loads
\* takes the output when it is one JSON document and raises JSONDecodeError
\* otherwise; the document is answered as it is with status 200.
analyze_spending(status, output) ==
    IF status # 0
    THEN [status |-> 500, body |-> ErrorDoc("Error processing analysis")]
    ELSE IF Len(output) # 1
    THEN [status |-> 500, body |-> ErrorDoc("Invalid JSON response from analysis script")]
    ELSE [status |-> 200, body |-> output[1]]

NextAnalyze ==
    \/ ReportFetchSpending
    \/ ReportFetchGoal
    \/ AnalyzeAttempt
    \/ AnalyzeSleep
    \/ ReportOutput

SpecAnalyze == InitAnalyze /\ [][NextAnalyze]_vars

\* The script is one thread whose every step returns: the API call
\* answers or raises, time.sleep comes back, print returns.
SpecAnalyzeLive == SpecAnalyze /\ WF_vars(NextAnalyze)

\* ------------------------------------------------------------- app.py
\* The most 'files' parts a request carries.
MaxUploads == 4

\* Two requests the server handles at the same time.
Requests == {1, 2}

\* The filenames of the parts: none given, or one of two names.
Filenames == {"", "a.jpg", "b.jpg"}

\* What request.files.getlist('files') can be: <<>> stands for a request
\* without a 'files' part (a part that is present holds at least one file).
UploadLists == UNION { [1..n -> Filenames] : n \in 0..MaxUploads }

\* The content of the file request r uploads at index idx.
Upload(r, idx) == <<r, idx>>

\* A path that also names the request.
file_path_per_request(r, idx, filename) == <<"/tmp", r, "image", idx, filename>>

\* os.path.join(temp_dir, f'image_{idx}_{file.filename}')
file_path(r, idx, filename) == <<"/tmp", "image", idx, filename>>

\* file.save(path): the file at the path is created or replaced.
Save(files, path, content) ==
    {e \in files : e.path # path} \cup {[path |-> path, content |-> content]}

\* The content of the file at the path.
ReadFile(files, path) == (CHOOSE e \in files : e.path = path).content

\* The server has received the requests.
InitApp ==
    /\ ReceiptOff
    /\ AnalyzeOff
    /\ uploads \in [Requests -> UploadLists]
    /\ app_pc = [r \in Requests |-> "check"]
    /\ saved = [r \in Requests |-> 0]
    /\ tmp = {}
    /\ sub_read = [r \in Requests |-> <<>>]
    /\ http_status = [r \in Requests |-> 0]

\* return jsonify(...), status
Respond(r, status) ==
    /\ http_status' = [http_status EXCEPT ![r] = status]
    /\ app_pc' = [app_pc EXCEPT ![r] = "done"]

\* process_request up to its loop: the 'files' part, the list, the count.
ProcessRequestCheck(r) ==
    /\ app_pc[r] = "check"
    /\ IF uploads[r] = <<>>
       THEN Respond(r, 400)
       ELSE IF Len(uploads[r]) > 3
       THEN Respond(r, 400)
       ELSE /\ app_pc' = [app_pc EXCEPT ![r] = "save"]
            /\ UNCHANGED http_status
    /\ UNCHANGED <<uploads, saved, tmp, sub_read>>
    /\ UNCHANGED <<receiptVars, analyzeVars>>

\* One round of process_request's loop: the filename test, file.save.
ProcessRequestSave(r) ==
    /\ app_pc[r] = "save"
    /\ LET idx == saved[r] + 1 IN
        IF uploads[r][idx] = ""
        THEN /\ Respond(r, 400)
             /\ UNCHANGED <<saved, tmp>>
        ELSE /\ tmp' = Save(tmp, file_path(r, idx, uploads[r][idx]), Upload(r, idx))
             /\ saved' = [saved EXCEPT ![r] = idx]
             /\ app_pc' = [app_pc EXCEPT ![r] =
                              IF idx = Len(uploads[r]) THEN "run" ELSE "save"]
             /\ UNCHANGED http_status
    /\ UNCHANGED <<uploads, sub_read>>
    /\ UNCHANGED <<receiptVars, analyzeVars>>

\* process_request runs receipt_ocr.py on image_paths.values(): the
\* subprocess reads the files at those paths and exits, and the answer is
\* 200 or 500 by its exit status.
ProcessRequestRun(r) ==
    /\ app_pc[r] = "run"
    /\ sub_read' = [sub_read EXCEPT ![r] =
                       [idx \in 1..Len(uploads[r]) |->
                           ReadFile(tmp, file_path(r, idx, uploads[r][idx]))]]
    /\ \E status \in {0, 1} : Respond(r, process_request(status, EmptyBag).status)
    /\ UNCHANGED <<uploads, saved, tmp>>
    /\ UNCHANGED <<receiptVars, analyzeVars>>

NextApp ==
    \E r \in Requests :
        \/ ProcessRequestCheck(r)
        \/ ProcessRequestSave(r)
        \/ ProcessRequestRun(r)

SpecApp == InitApp /\ [][NextApp]_vars

\* ------------------------------------------------------------- properties
\* The number of paths the run was given.
NumImages == Len(image_file_paths)

\* Standard output holds the log line of this level and message.
Logged(level, msg) == BagIn(LogLine(level, msg), stdout)

\* The print lines of standard output.
PrintLines == {l \in BagToSet(stdout) : l.kind = "print"}

\* The slot's task has returned.
Returned(i) == taskpc[i] \in {"finished", "collected"}

\* The texts the OCR tasks returned, in slot order.
SlotTexts == [k \in 1..Len(valid_image_paths) |-> taskRet[valid_image_paths[k]].text]

\* The worker pool block of main is behind the run.
PoolDone ==
    /\ valid_image_paths # <<>>
    /\ all_collected
    /\ pc \in {"collect", "summarize", "llm_wait", "exited"}

\* The value extracted_texts holds for the slot's label, as a set (empty: no entry).
Entries(i) ==
    {extracted_texts[k][2] : k \in {j \in 1..Len(extracted_texts) :
                                        extracted_texts[j][1] = image_type(i)}}

\* C1: the combined text handed to summarization is the newline join of the
\* slots' OCR texts in slot order (Receipt1, Receipt2, Receipt3), whatever
\* order the tasks completed in, the empty texts of failed slots in place.
C1_CombinedInSlotOrder ==
    pc \in {"summarize", "llm_wait"} =>
        /\ combined_text = join(<<NL>>, SlotTexts)
        /\ prompt = build_prompt(join(<<NL>>, SlotTexts))

\* C2: for N validated images, 1 <= N <= 3, once the pool block is done
\* extracted_texts holds exactly N entries, one per slot label, and a slot
\* whose OCR failed is there with the empty string.
C2_OneEntryPerSlot ==
    (PoolDone /\ Len(valid_image_paths) \in 1..3) =>
        /\ Len(extracted_texts) = Len(valid_image_paths)
        /\ \A k \in 1..Len(valid_image_paths) :
              /\ Cardinality({j \in 1..Len(extracted_texts) :
                    extracted_texts[j][1] = image_type(valid_image_paths[k])}) = 1
              /\ taskOutcome[valid_image_paths[k]] # "ok" =>
                    Entries(valid_image_paths[k]) = {<<>>}

\* Three validated images, one task failed and one returned a text, and the
\* pool block is done.
C2_Witness ==
    /\ PoolDone
    /\ Len(valid_image_paths) = 3
    /\ \E i, j \in Slots :
          /\ Returned(i) /\ taskOutcome[i] = "Timeout"
          /\ Returned(j) /\ taskOutcome[j] = "ok" /\ taskRet[j].text # <<>>

\* The slot has no request and no text: no request was posted to the OCR
\* endpoint for it, and the result it has, if any, is the empty string.
NoRequestNoText(i) ==
    /\ ocrRequests[i] = 0
    /\ Returned(i) => taskRet[i].text = <<>>
    /\ Entries(i) \subseteq {<<>>}

\* C3 as claimed: an image that fails validation (its path is no file, or its
\* guessed type is outside jpeg and png) has the empty string as its OCR
\* result and no request to the OCR endpoint.
C3_Original ==
    \A i \in 1..NumImages :
        (isfile[i] = "missing"
            \/ (isfile[i] = "file"
                    /\ image_file_paths[i] \notin {"image/jpeg", "image/png"}))
        => NoRequestNoText(i)

\* C3 as amended: an image that fails validation (its path is no file, or its
\* guessed type is outside image/jpeg, image/png and image/jpg) has no request
\* to the OCR endpoint, and the result it has, if any, is the empty string.
C3_InvalidImageNoRequest ==
    \A i \in 1..NumImages :
        (isfile[i] = "missing"
            \/ (isfile[i] = "file" /\ image_file_paths[i] \notin AcceptedMimeTypes))
        => NoRequestNoText(i)

\* One image was validated by main and is no file when its task looks: the
\* task has returned; another image's request went out.
C3_Witness ==
    \E i, j \in 1..NumImages :
        /\ isfile[i] = "missing" /\ taskpc[i] = "collected"
        /\ Entries(i) = {<<>>}
        /\ ocrRequests[j] = 1

\* main rejected every path of the run: 1 to 3 paths, the settings are there.
AllRejected ==
    /\ NumImages \in 1..3
    /\ pc = "exited"
    /\ valid_image_paths = <<>>
    /\ \A i \in 1..NumImages :
          /\ isfile[i] # "unknown"
          /\ ~(isfile[i] = "file" /\ image_file_paths[i] \in AcceptedMimeTypes)

\* C4 as claimed: when all N images fail validation the orchestrator reports
\* the 'OCR result is empty' error and never calls the summarization endpoint.
C4_Original ==
    AllRejected =>
        /\ Logged("ERROR", "OCR result is empty.")
        /\ llmRequests = 0

\* C4 as amended: when all N images fail validation the orchestrator reports
\* the 'No valid image files provided' error, not 'OCR result is empty', exits
\* with status 1 before any OCR task is submitted, and never calls the
\* summarization endpoint.
C4_AllInvalidNoValidImagesError ==
    AllRejected =>
        /\ exit_status = 1
        /\ Logged("ERROR", "No valid image files provided.")
        /\ ~Logged("ERROR", "OCR result is empty.")
        /\ Submitted = {}
        /\ \A i \in Slots : ocrRequests[i] = 0
        /\ llmRequests = 0

\* Three images, one no file and two of a type that is not accepted, all rejected.
C4_Witness ==
    /\ AllRejected
    /\ NumImages = 3
    /\ isfile[1] = "missing"
    /\ isfile[2] = "file" /\ isfile[3] = "file"

\* C5: the summarization request goes out only when every submitted OCR task
\* has returned and its result is stored in extracted_texts; no OCR task is
\* waiting or running while the request is made or after it.
C5_SummarizationAfterFanIn ==
    (pc \in {"summarize", "llm_wait"} \/ llmRequests > 0) =>
        \A i \in Slots :
            /\ taskpc[i] \in {"none", "collected"}
            /\ taskpc[i] = "collected" => Entries(i) = {taskRet[i].text}

\* The summarization request is out, after three OCR requests of which one
\* failed.
C5_Witness ==
    /\ pc = "llm_wait"
    /\ llmRequests = 1
    /\ \A i \in 1..3 : ocrRequests[i] = 1
    /\ \E i \in 1..3 : taskOutcome[i] = "status"

\* The outcomes of perform_ocr that are failures.
FailureOutcomes ==
    {"invalid", "imread_none", "cv2_error", "imencode_fail", "Timeout",
     "ConnectionError", "status", "unparsable", "malformed"}

\* C6: perform_ocr never raises: whatever preprocessing, encoding and the
\* request come to, it returns its slot's label with the empty string on a
\* failure, so the as_completed loop is never left by an exception and each
\* slot's entry is its own task's text.
C6_PerformOcrNeverRaises ==
    /\ \A i \in Slots :
          Returned(i) =>
            /\ taskRet[i].raised = ""
            /\ taskRet[i].image_type = image_type(i)
            /\ taskOutcome[i] \in FailureOutcomes => taskRet[i].text = <<>>
            /\ taskpc[i] = "collected" => Entries(i) = {taskRet[i].text}
    /\ (pc = "exited" /\ Submitted # {}) => all_collected

\* A field without inferText in one slot's answer, a text in another's, both
\* stored.
C6_Witness ==
    \E i, j \in Slots :
        /\ taskpc[i] = "collected" /\ taskOutcome[i] = "malformed"
        /\ taskpc[j] = "collected" /\ taskOutcome[j] = "ok"
        /\ Entries(j) = {<<"A", SP, "B">>}

\* The run got past the argument count and configuration checks.
ChecksPassed ==
    /\ arg_count_ok(NumImages)
    /\ first_missing(RequiredEnv, env) = ""

\* Standard output holds one print line, the summary.
SummaryPrinted ==
    /\ Truthy(summary_result)
    /\ PrintLines = {PrintLine(summary_result.text)}
    /\ CopiesIn(PrintLine(summary_result.text), stdout) = 1

\* C7: a partial batch still produces a summary: when a slot's OCR text is
\* not blank the summarization request is made, and when that call returns
\* a summary it is printed and the exit status is 0; past the argument and
\* configuration checks the only errors a run ends with are no valid image,
\* an empty OCR result, and a failed summarization.
C7_PartialBatchSummarized ==
    (pc = "exited" /\ ChecksPassed) =>
        /\ \/ exit_status = 0 /\ SummaryPrinted
           \/ exit_status = 1 /\ Logged("ERROR", "No valid image files provided.")
                /\ valid_image_paths = <<>>
           \/ exit_status = 1 /\ Logged("ERROR", "OCR result is empty.")
                /\ \A i \in Slots : Returned(i) => strip(taskRet[i].text) = <<>>
           \/ exit_status = 1 /\ Logged("ERROR", "Failed to retrieve summary result.")
                /\ llmRequests = 1 /\ ~Truthy(summary_result)
        /\ (\E i \in Slots : Returned(i) /\ strip(taskRet[i].text) # <<>>) =>
                /\ llmRequests = 1
                /\ Truthy(summary_result) => (exit_status = 0 /\ SummaryPrinted)

\* Three images: main skipped the first, the second's OCR timed out, the
\* third's text was summarized.
C7_Witness ==
    /\ pc = "exited"
    /\ exit_status = 0
    /\ NumImages = 3
    /\ isfile[1] = "missing"
    /\ taskOutcome[2] = "Timeout"
    /\ taskOutcome[3] = "ok"
    /\ SummaryPrinted

\* C8: the entry point ends either with the summary printed and status 0, or
\* with a status that is not 0 and no summary printed; the status is not 0
\* for an argument count outside 1..3, for no valid image, for an empty OCR
\* result and for a failed summarization.
C8_SummaryOrNonZeroExit ==
    pc = "exited" =>
        /\ exit_status \in {0, 1}
        /\ exit_status = 0 => SummaryPrinted
        /\ exit_status # 0 => PrintLines = {}
        /\ ~(1 <= NumImages /\ NumImages <= 3) => exit_status # 0
        /\ valid_image_paths = <<>> => exit_status # 0
        /\ (\A i \in Slots : Returned(i) => strip(taskRet[i].text) = <<>>)
                => exit_status # 0
        /\ ~Truthy(summary_result) => exit_status # 0

\* A run of three images ended with status 0; the summary was " S\n" before
\* perform_summarization trimmed it.
C8_Witness ==
    /\ pc = "exited"
    /\ exit_status = 0
    /\ NumImages = 3
    /\ Len(extracted_texts) = 3
    /\ PrintLines = {PrintLine(<<"S">>)}

\* Every OCR call of the run returned a text that is not empty, and the LLM
\* returned a summary.
SuccessfulRun ==
    /\ pc = "exited"
    /\ exit_status = 0
    /\ \A i \in 1..NumImages : taskOutcome[i] = "ok" /\ taskRet[i].text # <<>>

\* C9: on a successful run the prompt holds every slot's OCR text, and the
\* standard output, which process_request answers as 'result', is the
\* summary and nothing else.
C9_StdoutIsSummaryOnly ==
    SuccessfulRun =>
        /\ \A i \in 1..NumImages : Contains(prompt, taskRet[i].text)
        /\ stdout = SetToBag({PrintLine(summary_result.text)})
        /\ process_request(exit_status, stdout) =
              [status |-> 200, key |-> "result",
               body |-> SetToBag({PrintLine(summary_result.text)})]


\* The time analyze_expenses has slept.
RECURSIVE Sum(_)
Sum(seq) == IF seq = <<>> THEN 0 ELSE seq[1] + Sum(Tail(seq))

\* C10: when attempts 1 and 2 of analyze_expenses fail and attempt 3
\* succeeds, the result is built from the third answer, after two retries
\* that waited 1 and then 2 (3 or more in all), and the third call is the last.
C10_ThirdAttemptResult ==
    (/\ an_pc = "returned"
     /\ Len(api_calls) >= 3
     /\ ~yields_analysis(api_calls[1])
     /\ ~yields_analysis(api_calls[2])
     /\ yields_analysis(api_calls[3])) =>
        /\ analysis = DictPut(api_calls[3].doc, TotalKey, total_spending)
        /\ sleeps = <<1, 2>>
        /\ Sum(sleeps) >= 3
        /\ Len(api_calls) = 3

\* An exception, then an object json.loads rejects, then an answer whose
\* object has its own total, which the call's total replaces.
C10_Witness ==
    /\ an_pc = "returned"
    /\ total_spending = 1500
    /\ Len(api_calls) = 3
    /\ api_calls[1].raises
    /\ api_calls[2].hasObject /\ ~api_calls[2].parses
    /\ api_calls[3].parses /\ api_calls[3].doc = ((PatternKey :> "dining") @@ (TotalKey :> "100,000"))
    /\ analysis = ((PatternKey :> "dining") @@ (TotalKey :> 1500))

\* The answers of the LLM endpoint that are failures of the summarization.
LlmFailures == {"Timeout", "ConnectionError", "status", "unparsable", "malformed"}

\* C11: perform_summarization posts one request per call and main calls it
\* once in a run that reaches the summarization step: no run posts a second
\* request, and a timeout, a request exception, a status other than 200 or
\* a body without choices[0].message.content makes the call return None at
\* once, after which main reports the failure and exits with status 1.
C11_SingleSummarizationAttempt ==
    /\ llmRequests <= 1
    /\ pc = "llm_wait" => llmRequests = 1
    /\ llmOutcome.kind # "" => (pc = "exited" /\ llmRequests = 1)
    /\ llmOutcome.kind \in LlmFailures =>
            /\ summary_result = None
            /\ Logged("ERROR", "Failed to retrieve summary result.")
            /\ exit_status = 1
            /\ PrintLines = {}

\* The LLM endpoint answered 200 with a body that has no content field:
\* one request, no summary.
C11_Witness ==
    /\ pc = "exited"
    /\ llmOutcome.kind = "malformed"
    /\ llmRequests = 1
    /\ summary_result = None
    /\ Logged("ERROR", "Unexpected exception during summarization")

\* C12: when one of the four settings (OCR_API_URL, SECRET_KEY,
\* OPENAI_API_URL, OPENAI_API_KEY) is unset or empty the run never gets past
\* main's checks of them: it exits with status 1 having validated no image,
\* submitted no task to the pool and posted no OCR or LLM request.
C12_MissingSettingExitsFirst ==
    env # RequiredEnvSet =>
        /\ pc \in {"entry", "main", "exited"}
        /\ pc = "exited" => exit_status = 1
        /\ (pc = "exited" /\ 1 <= NumImages /\ NumImages <= 3) =>
                \E name \in RequiredEnvSet \ env : Logged("ERROR", env_message(name))
        /\ valid_image_paths = <<>>
        /\ \A i \in Slots :
                isfile[i] = "unknown" /\ taskpc[i] = "none" /\ ocrRequests[i] = 0
        /\ llmRequests = 0

\* Two images and every setting but the last one main reads: the run ended
\* with status 1 on that setting.
C12_Witness ==
    /\ pc = "exited"
    /\ exit_status = 1
    /\ NumImages = 2
    /\ env = RequiredEnvSet \ {"OPENAI_API_KEY"}
    /\ Logged("ERROR", env_message("OPENAI_API_KEY"))

\* main's validation loop has ended with a valid image and no task has
\* started yet: isfile holds what the loop saw.
ValidationDone == pc = "submit" /\ Submitted = {}

\* validate_image_path answers ok exactly for an existing file whose guessed
\* type is in `types`, and main keeps exactly the images it answers ok for,
\* in argument order, going on with them when others were rejected.
ValidatesExactly(types) ==
    /\ \A f \in BOOLEAN, m \in MimeTypes :
            validate_image_path(f, m) <=> (f /\ m \in types)
    /\ ValidationDone =>
            /\ \A i \in 1..NumImages :
                    (\E k \in 1..Len(valid_image_paths) : valid_image_paths[k] = i)
                        <=> (isfile[i] = "file" /\ image_file_paths[i] \in types)
            /\ \A k \in 1..(Len(valid_image_paths) - 1) :
                    valid_image_paths[k] < valid_image_paths[k + 1]
    /\ valid_image_paths # <<>> =>
            ~Logged("ERROR", "No valid image files provided.")

\* C13 as stated: the accepted types are image/jpeg and image/png.
C13_Original == ValidatesExactly({"image/jpeg", "image/png"})

\* C13: validate_image_path answers ok exactly when the path is an existing
\* file and its guessed type is image/jpeg, image/png or image/jpg; every
\* other guess, no guess included, is not ok, and main skips a rejected
\* image and goes on with the valid ones.
C13_ValidateAcceptsThreeTypes ==
    ValidatesExactly({"image/jpeg", "image/png", "image/jpg"})

\* Three images: an existing file guessed image/jpg is kept, one without a
\* guess and one that is not a file are skipped, and the run goes on.
C13_Witness ==
    /\ ValidationDone
    /\ NumImages = 3
    /\ image_file_paths[1] = "image/jpg" /\ isfile[1] = "file"
    /\ image_file_paths[2] = "None" /\ isfile[2] = "file"
    /\ image_file_paths[3] = "image/jpeg" /\ isfile[3] = "missing"
    /\ valid_image_paths = <<1>>
    /\ Logged("WARNING", "Invalid image path. Skipping this file.")

\* The text is empty or made of whitespace only.
Blank(text) == \A k \in 1..Len(text) : text[k] \in Whitespace

\* C17: the run exits with status 0 only when perform_summarization
\* returned a string that is not empty; a 200 answer whose content is empty
\* or whitespace only goes the way of a failed summarization: no summary
\* is printed and the exit status is not 0.
C17_BlankSummaryIsFailure ==
    /\ exit_status = 0 =>
            /\ ~summary_result.isNone
            /\ summary_result.text # <<>>
            /\ llmOutcome.kind = "ok" /\ ~Blank(llmOutcome.content)
    /\ (llmOutcome.kind = "ok" /\ Blank(llmOutcome.content)) =>
            /\ pc = "exited"
            /\ exit_status = 1
            /\ PrintLines = {}
            /\ summary_result = Str(<<>>)
            /\ Logged("ERROR", "Failed to retrieve summary result.")

\* The LLM endpoint answered 200 with a content of one space: the run ended
\* with status 1 and printed nothing.
C17_Witness ==
    /\ pc = "exited"
    /\ llmOutcome = [kind |-> "ok", content |-> <<SP>>]
    /\ exit_status = 1
    /\ PrintLines = {}

\* analyze_expenses has returned.
Returned_analysis == an_pc = "returned" \/ (an_pc = "done" /\ api_calls # <<>>)

\* The calls and sleeps of analyze_expenses so far are those of a loop of
\* at most 3 rounds that waits 1 and then 2 between rounds and ends at
\* the first answer that yields an analysis.
BoundedRetries ==
    /\ Len(api_calls) <= 3
    /\ sleeps \in {<<>>, <<1>>, <<1, 2>>}
    /\ \A k \in 1..(Len(api_calls) - 1) : ~yields_analysis(api_calls[k])
    /\ an_pc = "sleep" => Len(sleeps) = Len(api_calls) - 1
    /\ Returned_analysis =>
            /\ Len(api_calls) >= 1
            /\ Len(sleeps) = Len(api_calls) - 1
            /\ ~yields_analysis(api_calls[Len(api_calls)]) => Len(api_calls) = 3
    /\ an_pc = "returned" =>
            analysis = IF yields_analysis(api_calls[Len(api_calls)])
                       THEN DictPut(api_calls[Len(api_calls)].doc, TotalKey, total_spending)
                       ELSE EmptyDict

\* C15: analyze_expenses always terminates: whatever the API answers
\* (exception, no JSON object, unparsable JSON, success) it makes at most 3
\* calls, waits 1 then 2 between attempts and never after the last one,
\* returns at the first attempt that yields parsable JSON, and returns the
\* empty mapping when all 3 attempts fail.
C15_AnalyzeExpensesTerminates ==
    /\ []BoundedRetries
    /\ (an_pc = "call") ~> (an_pc = "returned")

\* Three failed attempts of three kinds: two sleeps, the empty mapping.
C15_Witness ==
    /\ an_pc = "returned"
    /\ Len(api_calls) = 3
    /\ api_calls[1].raises
    /\ ~api_calls[2].raises /\ ~api_calls[2].hasObject
    /\ api_calls[3].hasObject /\ ~api_calls[3].parses
    /\ sleeps = <<1, 2>>
    /\ analysis = EmptyDict

\* C16: when analyze_expenses has used up its retries and returned the
\* empty mapping, the script prints the error object
\* {'error': 'Spending analysis failed'} and no analysis document.
C16_ExhaustedPrintsError ==
    (/\ an_pc = "done"
     /\ Len(api_calls) = 3
     /\ ~yields_analysis(api_calls[3])) =>
        report_stdout = <<ErrorDoc("Spending analysis failed")>>

\* The outputs a run of the script could hand to the endpoint: what it
\* printed, nothing, or a document twice.
SampleOutputs == {<<>>, report_stdout, report_stdout \o report_stdout}

SubprocessRan(r) == app_pc[r] = "done" /\ http_status[r] \in {200, 500}

\* C14: the temporary path of an upload is made of its index and filename
\* alone, so two requests that upload the same filename at the same index
\* share the path, and a request's subprocess reads at each index either
\* its own upload or the upload another request saved to the same path
\* (save A, save B, run A's subprocess).
C14_SharedTempPath ==
    /\ \A r, q \in Requests, idx \in 1..MaxUploads, f \in Filenames :
            file_path(r, idx, f) = file_path(q, idx, f)
    /\ \A r \in Requests : SubprocessRan(r) =>
            /\ Len(sub_read[r]) = Len(uploads[r])
            /\ \A idx \in 1..Len(uploads[r]) :
                    \/ sub_read[r][idx] = Upload(r, idx)
                    \/ \E q \in Requests \ {r} :
                            /\ idx <= Len(uploads[q])
                            /\ uploads[q][idx] = uploads[r][idx]
                            /\ saved[q] >= idx
                            /\ sub_read[r][idx] = Upload(q, idx)

\* Two requests upload a.jpg as their only file; request 1's subprocess
\* read the file request 2 uploaded.
C14_Witness ==
    /\ uploads[1] = <<"a.jpg">>
    /\ uploads[2] = <<"a.jpg">>
    /\ SubprocessRan(1)
    /\ sub_read[1] = <<Upload(2, 1)>>

\* C18: a request answered with status 400 (no 'files' part, more than 3
\* files, a file with an empty filename at any position) has written no
\* uploaded file to /tmp and started no subprocess.
C18_RejectedRequestNoEffect ==
    \A r \in Requests : http_status[r] = 400 =>
        /\ saved[r] = 0
        /\ \A e \in tmp : e.content[1] # r
        /\ sub_read[r] = <<>>

====
